---- MODULE Spec2Model ----
(***************************************************************************)
(* A model of TextToGLSLText.py: the line-oriented compiler that turns a   *)
(* small markup document into a list of GLSL drawing statements.           *)
(*                                                                         *)
(* A line of text is a sequence of one-character strings.  An emitted      *)
(* statement is a record holding the template's name ("op") and the values *)
(* the template is filled with.  An integer is held by its value, a float  *)
(* by its integer part and its fraction digits without trailing zeros, so  *)
(* that "1", "1.0" and "1.00" are the same value, as float() has it.       *)
(* The characters are ASCII: str.isalnum, \d and \s are taken over ASCII.  *)
(***************************************************************************)
EXTENDS Naturals, Sequences, FiniteSets, TLC

\* ----------------------------------------------------------------- bounds

\* The longest document, in lines, of the general specification.
MaxLines == 4

\* The longest document, in lines, of the color specification.
MaxColorLines == 4

\* The longest document, in lines, of the darken specification.
MaxDarkenLines == 3

\* The longest document, in lines, of the shortcut specification.
MaxShortcutLines == 3

\* The longest document, in lines, of the text specification.
MaxTextLines == 3

\* The longest document, in lines, of the specification with fairness.
MaxLoopLines == 3

\* The longest document, in lines, of the footnote specification.
MaxFootnoteLines == 5

\* The longest document, in lines, of the specification of commands with
\* text after them.
MaxTrailLines == 3

\* ------------------------------------------------------------- characters

Digits == {"0", "1", "2", "3", "4", "5", "6", "7", "8", "9"}

Letters ==
    {"a", "b", "c", "d", "e", "f", "g", "h", "i", "j", "k", "l", "m",
     "n", "o", "p", "q", "r", "s", "t", "u", "v", "w", "x", "y", "z",
     "A", "B", "C", "D", "E", "F", "G", "H", "I", "J", "K", "L", "M",
     "N", "O", "P", "Q", "R", "S", "T", "U", "V", "W", "X", "Y", "Z"}

\* What str.strip() removes and \s matches.
Whitespace == {" ", "\t"}

isalpha(char) == char \in Letters

Alphanumerics == Letters \cup Digits

isalnum(char) == char \in Alphanumerics

\* The two non-ASCII keys of the table are written by their names.
CHAR_TO_SPECIAL ==
    [c \in {" ", ".", "-", ",", ":", "_", "\"", "!", ">", "<", "[", "]",
            "(", ")", "BLOCK", "COPYR", "=", "+", "/"} |->
        CASE c = " " -> "space"  [] c = "." -> "dot"
          [] c = "-" -> "minus"  [] c = "," -> "comma"
          [] c = ":" -> "colon"  [] c = "_" -> "under"
          [] c = "\"" -> "quote" [] c = "!" -> "exclm"
          [] c = ">" -> "gt"     [] c = "<" -> "lt"
          [] c = "[" -> "opsqr"  [] c = "]" -> "clsqr"
          [] c = "(" -> "opprn"  [] c = ")" -> "clprn"
          [] c = "BLOCK" -> "block" [] c = "COPYR" -> "copyr"
          [] c = "=" -> "equal"  [] c = "+" -> "plus"
          [] c = "/" -> "slash"]

SPECIAL_CHARS ==
    [n \in {"space", "under", "quote", "exclm", "gt", "lt", "opsqr", "clsqr",
            "opprn", "clprn", "block", "copyr", "equal", "plus", "dot",
            "minus", "comma", "colon", "slash"} |-> "_" \o n]

\* ------------------------------------------------------- string helpers

\* str.startswith
startswith(s, prefix) ==
    /\ Len(s) >= Len(prefix)
    /\ SubSeq(s, 1, Len(prefix)) = prefix

RECURSIVE lstrip(_)
lstrip(s) ==
    IF s # <<>> /\ Head(s) \in Whitespace THEN lstrip(Tail(s)) ELSE s

RECURSIVE rstrip(_)
rstrip(s) ==
    IF s # <<>> /\ s[Len(s)] \in Whitespace
    THEN rstrip(SubSeq(s, 1, Len(s) - 1)) ELSE s

\* str.strip
strip(s) == rstrip(lstrip(s))

\* ------------------------------------------------------ number parsing

DigitValue(c) ==
    CASE c = "0" -> 0 [] c = "1" -> 1 [] c = "2" -> 2 [] c = "3" -> 3
      [] c = "4" -> 4 [] c = "5" -> 5 [] c = "6" -> 6 [] c = "7" -> 7
      [] c = "8" -> 8 [] c = "9" -> 9

\* int() of a run of digits
RECURSIVE int(_)
int(ds) ==
    IF ds = <<>> THEN 0
    ELSE 10 * int(SubSeq(ds, 1, Len(ds) - 1)) + DigitValue(ds[Len(ds)])

RECURSIVE StripZeros(_)
StripZeros(fr) ==
    IF fr # <<>> /\ fr[Len(fr)] = 0
    THEN StripZeros(SubSeq(fr, 1, Len(fr) - 1)) ELSE fr

\* float() of text matched by \d+(?:\.\d+)?
float(txt) ==
    LET dot == IF \E k \in 1..Len(txt) : txt[k] = "."
               THEN CHOOSE k \in 1..Len(txt) : txt[k] = "."
               ELSE Len(txt) + 1
        frac == SubSeq(txt, dot + 1, Len(txt))
    IN  [ip |-> int(SubSeq(txt, 1, dot - 1)),
         fr |-> StripZeros([k \in 1..Len(frac) |-> DigitValue(frac[k])])]

\* The float comparisons of process_darken_command: no float the pattern
\* matches is negative.
FloatLess(a, b) ==
    \/ a.ip < b.ip
    \/ /\ a.ip = b.ip
       /\ \E k \in 1..Len(b.fr) :
            /\ \A j \in 1..(k - 1) : j <= Len(a.fr) /\ a.fr[j] = b.fr[j]
            /\ (k > Len(a.fr) \/ a.fr[k] < b.fr[k])

\* ---------------------------------------------------- pattern matching

\* The keywords, as text.
KW_start    == <<"s", "t", "a", "r", "t", "(">>
KW_vec3     == <<"v", "e", "c", "3", "(">>
KW_darken   == <<"d", "a", "r", "k", "e", "n", "(">>
KW_Title    == <<"T", "i", "t", "l", "e", "(">>
KW_Text     == <<"T", "e", "x", "t", "(">>
KW_Footnote == <<"F", "o", "o", "t", "n", "o", "t", "e", "(">>
KW_end      == <<"e", "n", "d", "(", ")">>
KW_darken0  == <<"d", "a", "r", "k", "e", "n", "(", ")">>

\* re.match anchors at the start of the text only: what follows the match is
\* not looked at.  A match is its groups; an absent group (None) is <<>>, and
\* no group of these patterns matches the empty text.
NoMatch == [ok |-> FALSE, g1 |-> <<>>, g2 |-> <<>>, g3 |-> <<>>]

At(s, p, c) == p >= 1 /\ p <= Len(s) /\ s[p] = c

\* \d* from position p: the position after the run
RECURSIVE SkipDigits(_, _)
SkipDigits(s, p) ==
    IF p <= Len(s) /\ s[p] \in Digits THEN SkipDigits(s, p + 1) ELSE p

\* \s* from position p
RECURSIVE SkipSpaces(_, _)
SkipSpaces(s, p) ==
    IF p <= Len(s) /\ s[p] \in Whitespace THEN SkipSpaces(s, p + 1) ELSE p

\* \d+(?:\.\d+)? from position p: the position after it, 0 when it fails
NumEnd(s, p) ==
    LET e == SkipDigits(s, p)
    IN  IF e = p THEN 0
        ELSE IF At(s, e, ".") /\ SkipDigits(s, e + 1) > e + 1
             THEN SkipDigits(s, e + 1)
             ELSE e

\* start\((\d+),\s*(\d+),\s*(\d+)\)
START_PATTERN(line) ==
    LET p1 == Len(KW_start) + 1
        e1 == SkipDigits(line, p1)
        p2 == SkipSpaces(line, e1 + 1)
        e2 == SkipDigits(line, p2)
        p3 == SkipSpaces(line, e2 + 1)
        e3 == SkipDigits(line, p3)
    IN  IF /\ startswith(line, KW_start)
           /\ e1 > p1 /\ At(line, e1, ",")
           /\ e2 > p2 /\ At(line, e2, ",")
           /\ e3 > p3 /\ At(line, e3, ")")
        THEN [ok |-> TRUE,
              g1 |-> SubSeq(line, p1, e1 - 1),
              g2 |-> SubSeq(line, p2, e2 - 1),
              g3 |-> SubSeq(line, p3, e3 - 1)]
        ELSE NoMatch

\* kw\((?:(\d+)(?:,\s*(\d+)(?:,\s*(\d+))?)?)?\), kw one of Title, Text, Footnote
ShortcutPattern(kw, line) ==
    LET p1 == Len(kw) + 1
        e1 == SkipDigits(line, p1)
        has1 == e1 > p1
        p2 == SkipSpaces(line, e1 + 1)
        e2 == SkipDigits(line, p2)
        has2 == has1 /\ At(line, e1, ",") /\ e2 > p2
        p3 == SkipSpaces(line, e2 + 1)
        e3 == SkipDigits(line, p3)
        has3 == has2 /\ At(line, e2, ",") /\ e3 > p3
        close == IF has3 THEN e3 ELSE IF has2 THEN e2 ELSE e1
    IN  IF startswith(line, kw) /\ At(line, close, ")")
        THEN [ok |-> TRUE,
              g1 |-> IF has1 THEN SubSeq(line, p1, e1 - 1) ELSE <<>>,
              g2 |-> IF has2 THEN SubSeq(line, p2, e2 - 1) ELSE <<>>,
              g3 |-> IF has3 THEN SubSeq(line, p3, e3 - 1) ELSE <<>>]
        ELSE NoMatch

TITLE_PATTERN(line) == ShortcutPattern(KW_Title, line)

TEXT_PATTERN(line) == ShortcutPattern(KW_Text, line)

FOOTNOTE_PATTERN(line) == ShortcutPattern(KW_Footnote, line)

\* vec3\((num)\s*(?:,\s*(num)\s*(?:,\s*(num))?)?\), num = \d+(?:\.\d+)?
COLOR_PATTERN(line) ==
    LET p1 == Len(KW_vec3) + 1
        e1 == NumEnd(line, p1)
        s1 == SkipSpaces(line, e1)
        p2 == SkipSpaces(line, s1 + 1)
        e2 == NumEnd(line, p2)
        has2 == At(line, s1, ",") /\ e2 # 0
        s2 == SkipSpaces(line, e2)
        p3 == SkipSpaces(line, s2 + 1)
        e3 == NumEnd(line, p3)
        has3 == has2 /\ At(line, s2, ",") /\ e3 # 0
        close == IF has3 THEN e3 ELSE IF has2 THEN s2 ELSE s1
    IN  IF startswith(line, KW_vec3) /\ e1 # 0 /\ At(line, close, ")")
        THEN [ok |-> TRUE,
              g1 |-> SubSeq(line, p1, e1 - 1),
              g2 |-> IF has2 THEN SubSeq(line, p2, e2 - 1) ELSE <<>>,
              g3 |-> IF has3 THEN SubSeq(line, p3, e3 - 1) ELSE <<>>]
        ELSE NoMatch

\* darken\((\d+(?:\.\d+)?)\)
DARKEN_PATTERN(line) ==
    LET p1 == Len(KW_darken) + 1
        e1 == NumEnd(line, p1)
    IN  IF startswith(line, KW_darken) /\ e1 # 0 /\ At(line, e1, ")")
        THEN [ok |-> TRUE, g1 |-> SubSeq(line, p1, e1 - 1),
              g2 |-> <<>>, g3 |-> <<>>]
        ELSE NoMatch

\* ------------------------------------------------------------ statements

DEFAULT_DARKNESS == [ip |-> 0, fr |-> <<6, 5>>]

\* '    printLine();'
EMPTY_LINE_RESULT == [op |-> "printLine"]

\* 'endText(color.rgb);'
SECTION_END_RESULT == [op |-> "endText"]

TITLE_DEFAULT_SIZE == 8
TITLE_DEFAULT_X == 6
TITLE_DEFAULT_Y == 10

TEXT_DEFAULT_SIZE == 4
TEXT_DEFAULT_X == 15
TEXT_DEFAULT_Y == 36

FOOTNOTE_DEFAULT_SIZE == 2
FOOTNOTE_DEFAULT_X == 30

\* What a function returns for "not this command".
None == [op |-> "None"]

\* 'color.rgb = mix(color.rgb, vec3(0.0), {darkness});'
DarkenStmt(darkness) == [op |-> "darken", v |-> darkness]

\* 'beginTextM({size}, vec2({pos_x}, {pos_y}));'
BeginStmt(size, pos_x, pos_y) ==
    [op |-> "beginTextM", size |-> size, x |-> pos_x, y |-> pos_y]

\* '    text.fgCol = vec4({r}, {g}, {b}, 1.0);'
ColorStmt(r, g, b) == [op |-> "fgCol", r |-> r, g |-> g, b |-> b]

\* '    printString(({", ".join(char_identifiers)}));'
PrintStringStmt(char_identifiers) ==
    [op |-> "printString", chars |-> char_identifiers]

\* ---------------------------------------------------------------- errors

NoError == [kind |-> "none", line |-> 0, char |-> ""]

\* ValueError, by its message; line and char are what the message carries.
ValueError(kind, line_num, char) ==
    [kind |-> kind, line |-> line_num, char |-> char]

\* ------------------------------------------------------------ validation

\* A variant of is_valid_char whose table holds no parenthesis.
is_valid_char_strict(char, is_command_line) ==
    \/ isalnum(char)
    \/ char \in DOMAIN CHAR_TO_SPECIAL \ {"(", ")"}
    \/ (is_command_line /\ char \in {"(", ")"})

is_valid_char(char, is_command_line) ==
    \/ isalnum(char)
    \/ char \in DOMAIN CHAR_TO_SPECIAL
    \/ (is_command_line /\ char \in {"(", ")"})

convert_to_chars(text) ==
    [k \in 1..Len(text) |->
        IF isalpha(text[k]) THEN "_" \o text[k]
        ELSE IF text[k] \in DOMAIN CHAR_TO_SPECIAL
             THEN SPECIAL_CHARS[CHAR_TO_SPECIAL[text[k]]]
             ELSE "_" \o text[k]]

is_command_line(line) ==
    \/ startswith(line, KW_start)
    \/ startswith(line, KW_vec3)
    \/ line = KW_end
    \/ startswith(line, KW_darken)
    \/ startswith(line, KW_Title)
    \/ startswith(line, KW_Text)
    \/ startswith(line, KW_Footnote)

\* The first character of the line, from position k on, that is not valid:
\* its position, 0 when every character is valid.
RECURSIVE FirstInvalid(_, _)
FirstInvalid(line, k) ==
    IF k > Len(line) THEN 0
    ELSE IF ~is_valid_char(line[k], is_command_line(line)) THEN k
    ELSE FirstInvalid(line, k + 1)

RECURSIVE ValidateFrom(_, _)
ValidateFrom(lines, line_num) ==
    IF line_num > Len(lines) THEN NoError
    ELSE LET k == FirstInvalid(lines[line_num], 1)
         IN  IF k # 0
             THEN ValueError("IllegalCharacter", line_num, lines[line_num][k])
             ELSE ValidateFrom(lines, line_num + 1)

\* A variant of validate_text that scans the lines from the last to the first.
RECURSIVE ValidateBack(_, _)
ValidateBack(lines, line_num) ==
    IF line_num < 1 THEN NoError
    ELSE LET k == FirstInvalid(lines[line_num], 1)
         IN  IF k # 0
             THEN ValueError("IllegalCharacter", line_num, lines[line_num][k])
             ELSE ValidateBack(lines, line_num - 1)

validate_text_backwards(lines) == ValidateBack(lines, Len(lines))

\* The error validate_text raises, NoError when it returns.
validate_text(lines) == ValidateFrom(lines, 1)

\* ------------------------------------------------------ command processing

\* The statement returned, or the error raised.
process_darken_command(line) ==
    LET darken_match == DARKEN_PATTERN(strip(line))
        darkness == float(darken_match.g1)
    IN  IF darken_match.ok
        THEN IF FloatLess(darkness, [ip |-> 0, fr |-> <<>>])
                \/ FloatLess([ip |-> 1, fr |-> <<>>], darkness)
             THEN [err |-> ValueError("DarknessOutOfRange", 0, ""), stmt |-> None]
             ELSE [err |-> NoError, stmt |-> DarkenStmt(darkness)]
        ELSE IF strip(line) = KW_darken0
        THEN [err |-> NoError, stmt |-> DarkenStmt(DEFAULT_DARKNESS)]
        ELSE [err |-> ValueError("InvalidDarkenFormat", 0, ""), stmt |-> None]

process_start_command(line) ==
    LET start_match == START_PATTERN(line)
    IN  IF start_match.ok
        THEN BeginStmt(int(start_match.g1), int(start_match.g2),
                       int(start_match.g3))
        ELSE None

\* A variant of process_color_command whose b takes after g.
process_color_command_g(line) ==
    LET color_match == COLOR_PATTERN(line)
        r == float(color_match.g1)
        g == IF color_match.g2 # <<>> THEN float(color_match.g2) ELSE r
        b == IF color_match.g3 # <<>> THEN float(color_match.g3) ELSE g
    IN  IF color_match.ok THEN ColorStmt(r, g, b) ELSE None

process_color_command(line) ==
    LET color_match == COLOR_PATTERN(line)
        r == float(color_match.g1)
        g == IF color_match.g2 # <<>> THEN float(color_match.g2) ELSE r
        b == IF color_match.g3 # <<>> THEN float(color_match.g3) ELSE r
    IN  IF color_match.ok THEN ColorStmt(r, g, b) ELSE None

process_title_command(line) ==
    LET title_match == TITLE_PATTERN(line)
    IN  IF title_match.ok
        THEN BeginStmt(
               IF title_match.g1 # <<>> THEN int(title_match.g1)
                                        ELSE TITLE_DEFAULT_SIZE,
               IF title_match.g2 # <<>> THEN int(title_match.g2)
                                        ELSE TITLE_DEFAULT_X,
               IF title_match.g3 # <<>> THEN int(title_match.g3)
                                        ELSE TITLE_DEFAULT_Y)
        ELSE None

\* A variant of process_text_command that fills in the defaults of Title.
process_text_command_title(line) ==
    LET text_match == TEXT_PATTERN(line)
    IN  IF text_match.ok
        THEN BeginStmt(
               IF text_match.g1 # <<>> THEN int(text_match.g1)
                                       ELSE TITLE_DEFAULT_SIZE,
               IF text_match.g2 # <<>> THEN int(text_match.g2)
                                       ELSE TITLE_DEFAULT_X,
               IF text_match.g3 # <<>> THEN int(text_match.g3)
                                       ELSE TITLE_DEFAULT_Y)
        ELSE None

process_text_command(line) ==
    LET text_match == TEXT_PATTERN(line)
    IN  IF text_match.ok
        THEN BeginStmt(
               IF text_match.g1 # <<>> THEN int(text_match.g1)
                                       ELSE TEXT_DEFAULT_SIZE,
               IF text_match.g2 # <<>> THEN int(text_match.g2)
                                       ELSE TEXT_DEFAULT_X,
               IF text_match.g3 # <<>> THEN int(text_match.g3)
                                       ELSE TEXT_DEFAULT_Y)
        ELSE None

\* A variant of process_footnote_command whose missing y is that of Text.
process_footnote_command_fixed(line, py, lc) ==
    LET footnote_match == FOOTNOTE_PATTERN(line)
    IN  IF footnote_match.ok
        THEN BeginStmt(
               IF footnote_match.g1 # <<>> THEN int(footnote_match.g1)
                                           ELSE FOOTNOTE_DEFAULT_SIZE,
               IF footnote_match.g2 # <<>> THEN int(footnote_match.g2)
                                           ELSE FOOTNOTE_DEFAULT_X,
               IF footnote_match.g3 # <<>> THEN int(footnote_match.g3)
                                           ELSE TEXT_DEFAULT_Y)
        ELSE None

process_footnote_command(line, py, lc) ==
    LET footnote_match == FOOTNOTE_PATTERN(line)
    IN  IF footnote_match.ok
        THEN BeginStmt(
               IF footnote_match.g1 # <<>> THEN int(footnote_match.g1)
                                           ELSE FOOTNOTE_DEFAULT_SIZE,
               IF footnote_match.g2 # <<>> THEN int(footnote_match.g2)
                                           ELSE FOOTNOTE_DEFAULT_X,
               IF footnote_match.g3 # <<>> THEN int(footnote_match.g3)
                                           ELSE py + (15 * lc) + 36)
        ELSE None

\* A variant of process_text_line that leaves the line advance out.
process_text_line_short(line) ==
    IF line = <<>>
    THEN [is_list |-> FALSE, value |-> <<EMPTY_LINE_RESULT>>]
    ELSE [is_list |-> TRUE,
          value |-> <<PrintStringStmt(convert_to_chars(line))>>]

\* The value returned and whether it is a list (of two statements) or a str.
process_text_line(line) ==
    IF line = <<>>
    THEN [is_list |-> FALSE, value |-> <<EMPTY_LINE_RESULT>>]
    ELSE [is_list |-> TRUE,
          value |-> <<PrintStringStmt(convert_to_chars(line)),
                      EMPTY_LINE_RESULT>>]

\* The section-start statement of the line, None when the line starts no
\* section: start(), then Title(), Text() and Footnote(), the first that
\* matches.
start_result(line, py, lc) ==
    IF process_start_command(line) # None THEN process_start_command(line)
    ELSE IF process_title_command(line) # None THEN process_title_command(line)
    ELSE IF process_text_command(line) # None THEN process_text_command(line)
    ELSE process_footnote_command(line, py, lc)

\* The y the driver remembers for the section the line starts.
current_y(line, py, lc) ==
    IF process_start_command(line) # None
    THEN int(START_PATTERN(line).g3)
    ELSE IF process_title_command(line) # None
    THEN IF TITLE_PATTERN(line).g3 # <<>> THEN int(TITLE_PATTERN(line).g3)
                                          ELSE TITLE_DEFAULT_Y
    ELSE IF process_text_command(line) # None
    THEN IF TEXT_PATTERN(line).g3 # <<>> THEN int(TEXT_PATTERN(line).g3)
                                         ELSE TEXT_DEFAULT_Y
    ELSE IF process_footnote_command(line, py, lc) # None
    THEN IF FOOTNOTE_PATTERN(line).ok /\ FOOTNOTE_PATTERN(line).g3 # <<>>
         THEN int(FOOTNOTE_PATTERN(line).g3)
         ELSE py + (15 * lc) + 36
    ELSE 0

\* A variant of is_misplaced_darken that knows only the bare darken().
is_misplaced_darken_exact(line) == line = KW_darken0

\* The driver's test for a darken() that is not on the first line.
is_misplaced_darken(line) == startswith(line, KW_darken)

\* A variant of is_color that knows no color command.
is_color_never(color_result, in_sec) == FALSE

\* A variant of is_color that forgets the section.
is_color_anywhere(color_result, in_sec) == color_result # None

\* The driver's test for a color command it emits.
is_color(color_result, in_sec) == color_result # None /\ in_sec

\* ------------------------------------------------------------- documents

L_darken    == <<"d", "a", "r", "k", "e", "n", "(", "0", ".", "5", ")">>
L_darken15  == <<"d", "a", "r", "k", "e", "n", "(", "1", ".", "5", ")">>
L_sdarken   == <<" ", "d", "a", "r", "k", "e", "n", "(", "1", ")">>
L_start     == <<"s", "t", "a", "r", "t", "(", "1", ",", " ", "2", ",",
                 "3", "0", ")">>
L_Text      == <<"T", "e", "x", "t", "(", ")">>
L_Footnote  == <<"F", "o", "o", "t", "n", "o", "t", "e", "(", ")">>
L_vec3      == <<"v", "e", "c", "3", "(", "1", ",", "0", ")">>
L_end       == <<"e", "n", "d", "(", ")">>
L_blank     == <<>>
L_spaces    == <<" ", " ">>
L_text      == <<"H", "i", "(", "1", ")">>
L_illegal   == <<"a", "#", "@">>

\* The lines a document of the general specification is made of, and the
\* lines its first line may be besides.
Pool == {L_sdarken, L_start, L_Text, L_Footnote, L_vec3, L_end, L_blank,
         L_spaces, L_text, L_illegal}

FirstPool == Pool \cup {L_darken, L_darken15}

L_vec3_1    == <<"v", "e", "c", "3", "(", "0", ".", "5", ")">>
L_vec3_3    == <<"v", "e", "c", "3", "(", "1", ",", " ", "0", " ", ",",
                 "0", ".", "2", "5", ")">>

\* The lines of a document of the color specification.
ColorPool == {L_Text, L_vec3_1, L_vec3, L_vec3_3, L_end, L_text}

L_darken0     == <<"d", "a", "r", "k", "e", "n", "(", ")">>
L_darkenZero  == <<"d", "a", "r", "k", "e", "n", "(", "0", ")">>
L_darkenOne   == <<"d", "a", "r", "k", "e", "n", "(", "1", ".", "0", ")">>
L_darkenNeg   == <<"d", "a", "r", "k", "e", "n", "(", "-", "0", ".", "5", ")">>
L_darkenWord  == <<"d", "a", "r", "k", "e", "n", "(", "x", ")">>
L_darkenTrail == <<"d", "a", "r", "k", "e", "n", "(", "0", ".", "5", ")",
                   "x">>

\* The first lines and the other lines of a document of the darken
\* specification.
DarkenFirstPool == {L_darken0, L_darkenZero, L_darkenOne, L_darken,
                    L_darken15, L_darkenNeg, L_darkenWord, L_darkenTrail,
                    L_sdarken, L_Text}

DarkenPool == {L_Text, L_text, L_end, L_sdarken}

L_Title0 == <<"T", "i", "t", "l", "e", "(", ")">>
L_Title1 == <<"T", "i", "t", "l", "e", "(", "5", ")">>
L_Title2 == <<"T", "i", "t", "l", "e", "(", "5", ",", " ", "7", ")">>
L_Title3 == <<"T", "i", "t", "l", "e", "(", "5", ",", "7", ",", "9", ")">>
L_Text1  == <<"T", "e", "x", "t", "(", "3", ")">>
L_Text2  == <<"T", "e", "x", "t", "(", "3", ",", "2", "0", ")">>
L_Text3  == <<"T", "e", "x", "t", "(", "3", ",", " ", "2", "0", ",", "5", "0",
              ")">>

\* The lines of a document of the shortcut specification.
ShortcutPool == {L_Title0, L_Title1, L_Title2, L_Title3, L_Text, L_Text1,
                 L_Text2, L_Text3, L_Footnote, L_end, L_text}

L_padded == <<" ", "a", " ", " ", "b", " ">>
L_words  == <<"a", " ", "b">>

\* The lines of a document of the text specification.
TextPool == {L_Text, L_end, L_padded, L_words, L_spaces, L_text, L_blank}

\* The lines of a document of the specification with fairness, and the
\* lines its first line may be besides.
LoopPool == {L_Text, L_end, L_text, L_blank, L_sdarken}

LoopFirstPool == {L_Text, L_end, L_text, L_blank, L_darken0}

L_Footnote1 == <<"F", "o", "o", "t", "n", "o", "t", "e", "(", "3", ")">>

\* The lines of a document of the footnote specification.
FootnotePool == {L_Footnote, L_Footnote1, L_Text, L_text, L_end, L_blank}

L_TextTrail == <<"T", "e", "x", "t", "(", ")", " ", "x">>
L_vec3Trail == <<"v", "e", "c", "3", "(", "1", ")", " ", "x">>

\* The lines of a document of the specification of commands with text
\* after them.
TrailPool == {L_Text, L_TextTrail, L_vec3_1, L_vec3Trail, L_text, L_end}

\* input_text.split('\n') is never empty: the empty text is one empty line.
Documents(first, rest, max) ==
    UNION {{d \in [1..n -> first \cup rest] :
              d[1] \in first /\ \A k \in 2..n : d[k] \in rest} :
           n \in 1..max}

\* ------------------------------------------------------------------ state

VARIABLES
    doc,          \* input_text.split('\n'), the document as given
    lines,        \* the local lines: the document, less a darken() first line
    pc,           \* where parse_and_convert is: validate, darken, loop,
                  \* done (it returned), error (it raised)
    i,            \* the loop's index into lines, 0-based
    output,       \* the statements emitted so far
    in_section,
    prev_y,
    line_count,
    error,        \* the ValueError raised, NoError while none is
    result        \* what the caller got back

vars == <<doc, lines, pc, i, output, in_section, prev_y, line_count,
          error, result>>

NoResult == [returned |-> FALSE, text |-> <<>>]

\* '\n'.join(output): one statement per line, in order.
Returned(out) == [returned |-> TRUE, text |-> out]

InitWith(documents) ==
    /\ doc \in documents
    /\ lines = doc
    /\ pc = "validate"
    /\ i = 0
    /\ output = <<>>
    /\ in_section = FALSE
    /\ prev_y = 0
    /\ line_count = 0
    /\ error = NoError
    /\ result = NoResult

Init == InitWith(Documents(FirstPool, Pool, MaxLines))

\* A variant of Raise that hands the caller what was emitted so far.
Raise_partial(e) ==
    /\ pc' = "error"
    /\ error' = e
    /\ result' = Returned(output)
    /\ UNCHANGED <<doc, lines, i, output, in_section, prev_y, line_count>>

\* raise: the function is left, nothing is returned.
Raise(e) ==
    /\ pc' = "error"
    /\ error' = e
    /\ UNCHANGED <<doc, lines, i, output, in_section, prev_y, line_count,
                   result>>

\* lines = input_text.split('\n'); validate_text(lines)
Validate ==
    /\ pc = "validate"
    /\ IF validate_text(lines) # NoError
       THEN Raise(validate_text(lines))
       ELSE /\ pc' = "darken"
            /\ UNCHANGED <<doc, lines, i, output, in_section, prev_y,
                           line_count, error, result>>

\* The darken() of the first line.
CheckDarken ==
    /\ pc = "darken"
    /\ IF lines # <<>> /\ startswith(strip(lines[1]), KW_darken)
       THEN LET r == process_darken_command(lines[1])
            IN  IF r.err # NoError
                THEN Raise(r.err)
                ELSE /\ output' = Append(output, r.stmt)
                     /\ lines' = Tail(lines)
                     /\ pc' = "loop"
                     /\ UNCHANGED <<doc, i, in_section, prev_y, line_count,
                                    error, result>>
       ELSE /\ pc' = "loop"
            /\ UNCHANGED <<doc, lines, i, output, in_section, prev_y,
                           line_count, error, result>>

\* A variant of ProcessLine that takes every line for text of an open section
\* and puts what the line emits before what was emitted.
ProcessLine_front ==
    /\ pc = "loop"
    /\ i < Len(lines)
    /\ output' = process_text_line(strip(lines[i + 1])).value \o output
    /\ line_count' = line_count + 1
    /\ i' = i + 1
    /\ UNCHANGED <<doc, lines, pc, in_section, prev_y, error, result>>

\* A variant of ProcessLine that does nothing, the index included.
ProcessLine_stay ==
    /\ pc = "loop"
    /\ i < Len(lines)
    /\ UNCHANGED vars

\* One pass of the while loop.
ProcessLine ==
    /\ pc = "loop"
    /\ i < Len(lines)
    /\ LET line == strip(lines[i + 1])
           sr == start_result(line, prev_y, line_count)
           color_result == process_color_command(line)
           text_results == process_text_line(line)
       IN  IF is_misplaced_darken(line)
           THEN Raise(ValueError("MisplacedDarken", i + 1, ""))
           ELSE IF line = KW_end
           THEN /\ output' = Append(output, SECTION_END_RESULT)
                /\ in_section' = FALSE
                /\ i' = i + 1
                /\ UNCHANGED <<doc, lines, pc, prev_y, line_count, error,
                               result>>
           ELSE IF sr # None
           THEN /\ output' = Append(output, sr)
                /\ in_section' = TRUE
                /\ prev_y' = current_y(line, prev_y, line_count)
                /\ line_count' = 0
                /\ i' = i + 1
                /\ UNCHANGED <<doc, lines, pc, error, result>>
           ELSE IF is_color(color_result, in_section)
           THEN /\ output' = Append(output, color_result)
                /\ i' = i + 1
                /\ UNCHANGED <<doc, lines, pc, in_section, prev_y,
                               line_count, error, result>>
           ELSE IF in_section
           THEN /\ IF line # <<>>
                   THEN IF text_results.is_list
                        THEN /\ output' = output \o text_results.value
                             /\ line_count' = line_count + 1
                        ELSE /\ output' = output \o text_results.value
                             /\ line_count' =
                                  IF text_results.value = <<EMPTY_LINE_RESULT>>
                                  THEN line_count + 1 ELSE line_count
                   ELSE /\ output' = Append(output, EMPTY_LINE_RESULT)
                        /\ line_count' = line_count + 1
                /\ i' = i + 1
                /\ UNCHANGED <<doc, lines, pc, in_section, prev_y, error,
                               result>>
           ELSE IF line # <<>>
           THEN Raise(ValueError("TextOutsideSection", i + 1, ""))
           ELSE /\ i' = i + 1
                /\ UNCHANGED <<doc, lines, pc, output, in_section, prev_y,
                               line_count, error, result>>

\* A variant of Finish without the check for an open section.
Finish_unchecked ==
    /\ pc = "loop"
    /\ i >= Len(lines)
    /\ pc' = "done"
    /\ result' = Returned(output)
    /\ UNCHANGED <<doc, lines, i, output, in_section, prev_y, line_count,
                   error>>

\* The loop is over: no section may be open.
Finish ==
    /\ pc = "loop"
    /\ i >= Len(lines)
    /\ IF in_section
       THEN Raise(ValueError("UnclosedSection", 0, ""))
       ELSE /\ pc' = "done"
            /\ result' = Returned(output)
            /\ UNCHANGED <<doc, lines, i, output, in_section, prev_y,
                           line_count, error>>

Next == Validate \/ CheckDarken \/ ProcessLine \/ Finish

Spec == Init /\ [][Next]_vars

\* The driver runs on: a call that can take a step takes one.
InitLoop == InitWith(Documents(LoopFirstPool, LoopPool, MaxLoopLines))

SpecFair == InitLoop /\ [][Next]_vars /\ WF_vars(Next)

\* The driver on documents of color commands.
InitColor == InitWith(Documents(ColorPool, ColorPool, MaxColorLines))

SpecColor == InitColor /\ [][Next]_vars

\* The driver on documents that begin with a darken command.
InitDarken == InitWith(Documents(DarkenFirstPool, DarkenPool, MaxDarkenLines))

SpecDarken == InitDarken /\ [][Next]_vars

\* The driver on documents of Title and Text commands.
InitShortcut ==
    InitWith(Documents(ShortcutPool, ShortcutPool, MaxShortcutLines))

SpecShortcut == InitShortcut /\ [][Next]_vars

\* The driver on documents of text lines with whitespace.
InitText == InitWith(Documents(TextPool, TextPool, MaxTextLines))

SpecText == InitText /\ [][Next]_vars

\* The driver on documents of Footnote commands and blank lines.
InitFootnote ==
    InitWith(Documents(FootnotePool, FootnotePool, MaxFootnoteLines))

SpecFootnote == InitFootnote /\ [][Next]_vars

\* The driver on documents of commands with text after them.
InitTrail == InitWith(Documents(TrailPool, TrailPool, MaxTrailLines))

SpecTrail == InitTrail /\ [][Next]_vars

\* ----------------------------------------------------------------- claims

\* What the driver takes a stripped line for, by its order of recognition.
LineKind(line) ==
    IF startswith(line, KW_darken) THEN "darken"
    ELSE IF line = KW_end THEN "end"
    ELSE IF \/ START_PATTERN(line).ok \/ TITLE_PATTERN(line).ok
            \/ TEXT_PATTERN(line).ok \/ FOOTNOTE_PATTERN(line).ok
    THEN "start"
    ELSE IF COLOR_PATTERN(line).ok THEN "color"
    ELSE IF line = <<>> THEN "blank"
    ELSE "text"

Terminated == pc \in {"done", "error"}

\* The first lines of the document the driver has dropped (a darken()).
Shift == Len(doc) - Len(lines)

\* The line of the document the loop is at, 1-based.
DocLine == i + 1 + Shift

Min(S) == CHOOSE x \in S : \A y \in S : x <= y

Max(S) == CHOOSE x \in S : \A y \in S : x >= y

\* C1: sections do not nest: in the output of every successful conversion,
\* between two beginTextM statements there is an endText statement.
C1_SectionsDoNotNest ==
    pc = "done" =>
        \A a, b \in 1..Len(result.text) :
            (/\ a < b
             /\ result.text[a].op = "beginTextM"
             /\ result.text[b].op = "beginTextM")
            => \E e \in (a + 1)..(b - 1) : result.text[e].op = "endText"

\* The document has a start-family line with no end() line after it.
OpenAtEnd(d) ==
    \E k \in 1..Len(d) :
        /\ LineKind(strip(d[k])) = "start"
        /\ \A j \in (k + 1)..Len(d) : strip(d[j]) # KW_end

\* C2: a conversion that reaches the end of the input with a section open
\* fails with the unclosed-section error and returns nothing; a conversion
\* that succeeds ends with no section open.
C2_UnclosedSection ==
    /\ pc = "done" => ~in_section
    /\ (/\ Terminated
        /\ OpenAtEnd(doc)
        /\ error.kind \notin {"IllegalCharacter", "DarknessOutOfRange",
                              "InvalidDarkenFormat", "MisplacedDarken",
                              "TextOutsideSection"})
       => (pc = "error" /\ error.kind = "UnclosedSection"
           /\ result = NoResult)
    /\ (pc = "error" /\ error.kind = "UnclosedSection")
       => (OpenAtEnd(doc) /\ i = Len(lines) /\ in_section)

C2_Witness ==
    /\ pc = "error"
    /\ error.kind = "UnclosedSection"
    /\ Len(output) >= 2
    /\ result = NoResult

\* The lines after the first whose trimmed form begins with darken(.
DarkenLater(d) ==
    {k \in 2..Len(d) : startswith(strip(d[k]), KW_darken)}

\* C3: a document with a darken( line after line 1 never converts: unless
\* character validation, the darken() of line 1 or an earlier line of the
\* loop fails first, it fails with the misplaced-darken error at the first
\* such line, with a section open or not.
C3_MisplacedDarken ==
    (Terminated /\ DarkenLater(doc) # {} /\ error.kind # "IllegalCharacter")
    => /\ pc = "error"
       /\ \/ error.kind \in {"DarknessOutOfRange", "InvalidDarkenFormat"}
          \/ error.kind = "TextOutsideSection"
             /\ DocLine < Min(DarkenLater(doc))
          \/ error.kind = "MisplacedDarken"
             /\ DocLine = Min(DarkenLater(doc))

C3_Witness ==
    /\ pc = "error"
    /\ error.kind = "MisplacedDarken"
    /\ in_section
    /\ DocLine >= 3

\* The loop is about to process a line, which is of kind k.
AtLine(k) ==
    /\ pc = "loop"
    /\ i < Len(lines)
    /\ LineKind(strip(lines[i + 1])) = k

\* C4 as stated: a text line, a blank line or a color command met with no
\* section open fails with the content-outside-a-section error.
C4_Original ==
    [][(~in_section /\ (AtLine("text") \/ AtLine("blank") \/ AtLine("color")))
       => (pc' = "error" /\ error'.kind = "TextOutsideSection")]_vars

\* C4, amended: a text line or a color command met with no section open
\* fails with the content-outside-a-section error; a blank line met with no
\* section open is skipped and changes nothing but the index.
C4_ContentOutside ==
    [][/\ (~in_section /\ (AtLine("text") \/ AtLine("color")))
          => /\ pc' = "error"
             /\ error' = ValueError("TextOutsideSection", i + 1, "")
             /\ result' = NoResult
       /\ (~in_section /\ AtLine("blank"))
          => /\ pc' = "loop"
             /\ i' = i + 1
             /\ UNCHANGED <<output, in_section, prev_y, line_count, error>>
      ]_vars

C4_Witness ==
    /\ pc = "error"
    /\ error.kind = "TextOutsideSection"
    /\ i >= 1
    /\ LineKind(strip(lines[1])) = "blank"
    /\ LineKind(strip(lines[i + 1])) = "color"

\* The endText statements of an output that close a section, each with the
\* beginTextM statement of the section it closes.
Closings(out) ==
    {<<b, e>> \in (1..Len(out)) \X (1..Len(out)) :
        /\ b < e
        /\ out[b].op = "beginTextM"
        /\ out[e].op = "endText"
        /\ \A m \in (b + 1)..(e - 1) :
              out[m].op \notin {"beginTextM", "endText"}}

LastClosing(out) ==
    CHOOSE c \in Closings(out) : \A d \in Closings(out) : d[2] <= c[2]

\* The y of the section closed last, 0 when none was closed.
lastClosedY(out) ==
    IF Closings(out) = {} THEN 0 ELSE out[LastClosing(out)[1]].y

\* The text and blank lines of the section closed last: one printLine each.
lastClosedLineCount(out) ==
    IF Closings(out) = {} THEN 0
    ELSE Cardinality({m \in LastClosing(out)[1]..LastClosing(out)[2] :
                        out[m].op = "printLine"})

\* A Footnote command without a y of its own.
IsFootnoteWithoutY(line) ==
    /\ LineKind(line) = "start"
    /\ FOOTNOTE_PATTERN(line).ok
    /\ FOOTNOTE_PATTERN(line).g3 = <<>>

\* C5: a Footnote command without an explicit y opens its section at
\* lastClosedY + 15 * lastClosedLineCount + 36, the values being those of the
\* section closed last in the output before it.
C5_FootnoteY ==
    (i >= 1 /\ IsFootnoteWithoutY(strip(lines[i])))
    => LET before == SubSeq(output, 1, Len(output) - 1)
       IN  /\ output[Len(output)].op = "beginTextM"
           /\ output[Len(output)].y =
                lastClosedY(before) + 15 * lastClosedLineCount(before) + 36

\* The lines processed so far, by kind.
Processed(kinds) ==
    {j \in 1..i : LineKind(strip(lines[j])) \in kinds}

\* C6, the counter: while a section is open the line counter is the number
\* of text and blank lines processed since the last start-family command.
C6_Counter ==
    in_section =>
        /\ Processed({"start"}) # {}
        /\ line_count =
             Cardinality({j \in Processed({"text", "blank"}) :
                            j > Max(Processed({"start"}))})

\* C6, the step: in a section a blank line appends one statement, printLine,
\* a text line two, printString then printLine, each adds one to the line
\* counter, and a start-family command sets the counter to 0.
C6_Step ==
    /\ (in_section /\ AtLine("blank"))
       => /\ output' = Append(output, EMPTY_LINE_RESULT)
          /\ line_count' = line_count + 1
    /\ (in_section /\ AtLine("text"))
       => /\ Len(output') = Len(output) + 2
          /\ SubSeq(output', 1, Len(output)) = output
          /\ output'[Len(output) + 1].op = "printString"
          /\ output'[Len(output) + 2] = EMPTY_LINE_RESULT
          /\ line_count' = line_count + 1
    /\ AtLine("start") => line_count' = 0

\* C6: statement counts per line and the line counter.
C6_LineCounts == []C6_Counter /\ [][C6_Step]_vars

C6_Witness ==
    /\ in_section
    /\ line_count = 2
    /\ Len(output) = 4
    /\ output[2].op = "printString"
    /\ output[4].op = "printLine"

\* The color statement of a vec3 command whose missing b takes after x.
ColorOf(line, x) ==
    LET m == COLOR_PATTERN(line)
        r == float(m.g1)
        g == IF m.g2 # <<>> THEN float(m.g2) ELSE r
        b == IF m.g3 # <<>> THEN float(m.g3) ELSE IF x = "g" THEN g ELSE r
    IN  ColorStmt(r, g, b)

\* The loop has just emitted the color statement of line i.
ColorEmitted ==
    /\ i >= 1
    /\ in_section
    /\ LineKind(strip(lines[i])) = "color"

\* C7 as stated: in the color statement a missing g is r and a missing b is
\* the resolved g, so that vec3(r, g) gives (r, g, g).
C7_Original ==
    ColorEmitted => output[Len(output)] = ColorOf(strip(lines[i]), "g")

\* C7, amended: in the color statement a missing g is r and a missing b is
\* r as well, so that vec3(r) gives (r, r, r), vec3(r, g) gives (r, g, r) and
\* vec3(r, g, b) gives (r, g, b).
C7_ColorDefaults ==
    ColorEmitted => output[Len(output)] = ColorOf(strip(lines[i]), "r")

C7_Witness ==
    /\ i = 4
    /\ output = <<BeginStmt(4, 15, 36),
                  ColorStmt([ip |-> 0, fr |-> <<5>>], [ip |-> 0, fr |-> <<5>>],
                            [ip |-> 0, fr |-> <<5>>]),
                  ColorStmt([ip |-> 1, fr |-> <<>>], [ip |-> 0, fr |-> <<>>],
                            [ip |-> 1, fr |-> <<>>]),
                  ColorStmt([ip |-> 1, fr |-> <<>>], [ip |-> 0, fr |-> <<>>],
                            [ip |-> 0, fr |-> <<2, 5>>])>>

\* C8: the conversion is all or nothing: when it raises, the caller gets
\* nothing of what was emitted; when it returns, it returns every statement
\* emitted, every line having been processed; before that nothing is
\* returned.
C8_AllOrNothing ==
    /\ pc = "error" => (result = NoResult /\ error # NoError)
    /\ pc = "done" => /\ result = Returned(output)
                      /\ error = NoError
                      /\ i = Len(lines)
    /\ ~Terminated => (result = NoResult /\ error = NoError)

C8_Witness ==
    /\ pc = "error"
    /\ error.kind = "TextOutsideSection"
    /\ Len(output) >= 2
    /\ result = NoResult

\* A character outside the fixed set: the alphanumerics and the table.
AllowedChars == Letters \cup Digits \cup DOMAIN CHAR_TO_SPECIAL

Disallowed(c) == c \notin AllowedChars

BadLines(d) ==
    {n \in 1..Len(d) : \E k \in 1..Len(d[n]) : Disallowed(d[n][k])}

FirstBadChar(line) ==
    line[Min({k \in 1..Len(line) : Disallowed(line[k])})]

\* C9: a document with a disallowed character fails in validation, before
\* any line is processed or any statement emitted, with the
\* illegal-character error of the first such line and its first such
\* character, whatever else is wrong with the document.
C9_ValidationFirst ==
    BadLines(doc) # {} =>
        /\ pc \in {"validate", "error"}
        /\ output = <<>> /\ i = 0 /\ lines = doc
        /\ pc = "error" =>
             error = ValueError("IllegalCharacter", Min(BadLines(doc)),
                                FirstBadChar(doc[Min(BadLines(doc))]))

C9_Witness ==
    /\ pc = "error"
    /\ error.kind = "IllegalCharacter"
    /\ error.line = 2
    /\ doc[1] = L_darken15
    /\ Cardinality(BadLines(doc)) >= 2

\* The document has a parenthesis on a line that is no command line.
ParenOffCommand(d) ==
    \E n \in 1..Len(d) :
        /\ ~is_command_line(d[n])
        /\ \E k \in 1..Len(d[n]) : d[n][k] \in {"(", ")"}

\* C10 as stated: a parenthesis on a line that is no command line makes the
\* validation fail with the illegal-character error.
C10_Original ==
    (pc # "validate" /\ ParenOffCommand(doc))
    => (pc = "error" /\ error.kind = "IllegalCharacter")

\* C10, amended: a parenthesis is accepted on every line, command line or
\* not: the validation fails only for a character that is neither
\* alphanumeric nor in the table, which holds both parentheses.
C10_ParenthesesAllowed ==
    /\ (pc = "error" /\ error.kind = "IllegalCharacter")
       => (error.char \notin {"(", ")"} /\ Disallowed(error.char))
    /\ (pc # "validate" /\ BadLines(doc) = {})
       => error.kind # "IllegalCharacter"

C10_Witness ==
    /\ pc = "done"
    /\ ParenOffCommand(doc)
    /\ \E k \in 1..Len(output) :
          /\ output[k].op = "printString"
          /\ "_opprn" \in {output[k].chars[j] : j \in 1..Len(output[k].chars)}

\* Text that is a decimal number: digits, then perhaps a dot and digits.
IsDecimal(txt) == txt # <<>> /\ NumEnd(txt, 1) = Len(txt) + 1

Zero == [ip |-> 0, fr |-> <<>>]

One == [ip |-> 1, fr |-> <<>>]

\* What C11 says of a line that begins with darken(: the statement's value
\* (ok), the range error or the format error.
DarkenExpected(line) ==
    LET arg == SubSeq(line, Len(KW_darken) + 1, Len(line) - 1)
    IN  IF line = KW_darken0 THEN [kind |-> "ok", v |-> DEFAULT_DARKNESS]
        ELSE IF line[Len(line)] = ")" /\ IsDecimal(arg)
        THEN IF FloatLess(One, float(arg))
             THEN [kind |-> "range", v |-> float(arg)]
             ELSE [kind |-> "ok", v |-> float(arg)]
        ELSE IF /\ line[Len(line)] = ")" /\ arg # <<>> /\ arg[1] = "-"
                /\ IsDecimal(Tail(arg)) /\ float(Tail(arg)) # Zero
        THEN [kind |-> "range", v |-> float(Tail(arg))]
        ELSE [kind |-> "format", v |-> Zero]

\* C11: of a document whose first line begins with darken(: darken() emits
\* the darken statement with 0.65, darken(v) with v in [0.0, 1.0] emits it
\* with v, darken(v) with v outside that range fails with the range error,
\* any other such line fails with the format error; an output has at most
\* one darken statement, and has it first.
C11_Darken ==
    /\ (/\ pc \notin {"validate", "darken"}
        /\ error.kind # "IllegalCharacter"
        /\ startswith(strip(doc[1]), KW_darken))
       => LET e == DarkenExpected(strip(doc[1]))
          IN  /\ e.kind = "ok"
                 => /\ error.kind \notin {"DarknessOutOfRange",
                                          "InvalidDarkenFormat"}
                    /\ output # <<>>
                    /\ output[1] = DarkenStmt(e.v)
              /\ e.kind = "range"
                 => (pc = "error" /\ error.kind = "DarknessOutOfRange")
              /\ e.kind = "format"
                 => (pc = "error" /\ error.kind = "InvalidDarkenFormat")
    /\ \A k \in 1..Len(output) : output[k].op = "darken" => k = 1

\* The fields of a text, which commas separate.
RECURSIVE Fields(_)
Fields(s) ==
    LET commas == {k \in 1..Len(s) : s[k] = ","}
    IN  IF commas = {} THEN <<s>>
        ELSE <<SubSeq(s, 1, Min(commas) - 1)>>
             \o Fields(SubSeq(s, Min(commas) + 1, Len(s)))

\* The arguments of a command kw(a, b, c), as written.
Arguments(kw, line) ==
    LET inner == SubSeq(line, Len(kw) + 1, Len(line) - 1)
    IN  IF inner = <<>> THEN <<>> ELSE Fields(inner)

IsInteger(txt) == txt # <<>> /\ \A k \in 1..Len(txt) : txt[k] \in Digits

\* The line is kw( ... ) with no to three integer arguments.
IsShortcut(kw, line) ==
    /\ startswith(line, kw)
    /\ line[Len(line)] = ")"
    /\ LET a == Arguments(kw, line)
       IN  /\ Len(a) <= 3
           /\ \A k \in 1..Len(a) :
                 IsInteger(IF k = 1 THEN a[k] ELSE lstrip(a[k]))

\* The arguments of the line from left to right, then the defaults.
Resolved(kw, line, defaults) ==
    LET a == Arguments(kw, line)
    IN  [k \in 1..3 |-> IF k <= Len(a) THEN int(strip(a[k])) ELSE defaults[k]]

\* What C12 says a Title or Text command resolves to, <<>> for another line.
ShortcutValues(line) ==
    IF IsShortcut(KW_Title, line)
    THEN Resolved(KW_Title, line, <<TITLE_DEFAULT_SIZE, TITLE_DEFAULT_X,
                                    TITLE_DEFAULT_Y>>)
    ELSE IF IsShortcut(KW_Text, line)
    THEN Resolved(KW_Text, line, <<TEXT_DEFAULT_SIZE, TEXT_DEFAULT_X,
                                   TEXT_DEFAULT_Y>>)
    ELSE <<>>

\* C12: a Title or Text command with no to three integer arguments fills
\* size, x and y from left to right and takes its own defaults (Title 8, 6,
\* 10; Text 4, 15, 36) for the missing ones; the beginTextM statement it
\* emits has the resolved values, and so has the y remembered: a Footnote()
\* that comes next, or next after end(), starts 36 below the resolved y.
C12_ShortcutDefaults ==
    /\ (i >= 1 /\ ShortcutValues(strip(lines[i])) # <<>>)
       => LET v == ShortcutValues(strip(lines[i]))
          IN  /\ output[Len(output)] = BeginStmt(v[1], v[2], v[3])
              /\ prev_y = v[3]
              /\ in_section
    /\ \A j \in 1..(i - 1) :
          (/\ ShortcutValues(strip(lines[j])) # <<>>
           /\ IsFootnoteWithoutY(strip(lines[i]))
           /\ \/ j = i - 1
              \/ j = i - 2 /\ strip(lines[i - 1]) = KW_end)
          => output[Len(output)].y = ShortcutValues(strip(lines[j]))[3] + 36

C12_Witness ==
    /\ i = 3
    /\ lines = <<L_Title2, L_end, L_Footnote>>
    /\ output = <<BeginStmt(5, 7, 10), SECTION_END_RESULT,
                  BeginStmt(2, 30, 46)>>

\* The first sequence is the beginning of the second.
IsPrefix(a, b) == Len(a) <= Len(b) /\ SubSeq(b, 1, Len(a)) = a

\* C13: the output is append-only and in encounter order: every step leaves
\* what was emitted in place and adds at the end only, the index never goes
\* back, and a step that emits is the darken() of line 1, before any line of
\* the loop, or the loop's step for the line at the index, which it then
\* advances by one; so the statements of a line come before those of every
\* later line.
C13_AppendOnly ==
    [][/\ IsPrefix(output, output')
       /\ i' >= i
       /\ output' # output
          => \/ pc = "darken" /\ i = 0 /\ output = <<>> /\ Len(output') = 1
             \/ pc = "loop" /\ i' = i + 1 /\ Len(output') <= Len(output) + 2
      ]_vars

C13_Witness ==
    /\ pc = "done"
    /\ i = 3
    /\ Len(output) = 5
    /\ output[1].op = "darken"
    /\ output[2].op = "beginTextM"
    /\ output[3].op = "printString"
    /\ output[5].op = "endText"

\* The loop has just processed line i, a text line, in an open section.
TextEmitted ==
    /\ i >= 1
    /\ LineKind(strip(lines[i])) = "text"

\* C14: the printString statement of a text line in an open section has one
\* token for every character of the line as given, in order, its leading,
\* trailing and repeated whitespace included.
C14_TokenPerCharacter ==
    TextEmitted =>
        LET chars == output[Len(output) - 1].chars
        IN  /\ Len(chars) = Len(lines[i])
            /\ chars = convert_to_chars(lines[i])

\* C15: an error that carries a line number carries the 1-based number, in
\* the document as given, of the line at fault: the first line with a
\* disallowed character, the line of the misplaced darken(, the line of the
\* text outside a section; also when line 1 is a darken command.
C15_LineNumbers ==
    /\ (pc = "error" /\ error.kind = "IllegalCharacter")
       => error.line = Min(BadLines(doc))
    /\ (pc = "error" /\ error.kind \in {"MisplacedDarken",
                                         "TextOutsideSection"})
       => error.line = DocLine

\* C16: a vec3 command met in an open section emits one statement, the
\* color statement, and changes nothing else: the section stays open, the
\* line counter and the remembered y are as they were, and the loop goes on
\* with the next line.
C16_ColorFrame ==
    [][(in_section /\ AtLine("color"))
       => /\ Len(output') = Len(output) + 1
          /\ IsPrefix(output, output')
          /\ output'[Len(output')].op = "fgCol"
          /\ in_section'
          /\ line_count' = line_count
          /\ prev_y' = prev_y
          /\ i' = i + 1
          /\ pc' = "loop"
      ]_vars

C16_Witness ==
    /\ i = 3
    /\ LineKind(strip(lines[i])) = "color"
    /\ in_section
    /\ line_count = 1
    /\ prev_y = TEXT_DEFAULT_Y
    /\ Len(output) = 4
    /\ output[3].op = "printLine"
    /\ output[4].op = "fgCol"

\* The statements of an output that are of the operation op.
CountOp(out, op) == Cardinality({k \in 1..Len(out) : out[k].op = op})

\* C17: end() takes effect only while a section is open: in every prefix of
\* the output returned there are at most as many endText statements as
\* beginTextM statements, so an end() met with no section open puts no endText into
\* the output of a successful conversion.
C17_EndOnlyWhenOpen ==
    pc = "done" =>
        \A n \in 0..Len(result.text) :
            CountOp(SubSeq(result.text, 1, n), "endText")
                <= CountOp(SubSeq(result.text, 1, n), "beginTextM")

\* A step of the driver: before the loop the index stays 0; a pass of the
\* loop is for the line at the index, and raises or advances the index by
\* one; past the last line the call returns or raises; after that no step.
C18_Step ==
    /\ ~Terminated
    /\ pc \in {"validate", "darken"} => (i = 0 /\ i' = 0)
    /\ (pc = "loop" /\ i < Len(lines))
       => \/ pc' = "error" /\ i' = i
          \/ pc' = "loop" /\ i' = i + 1 /\ lines' = lines
    /\ (pc = "loop" /\ i >= Len(lines))
       => (i = Len(lines) /\ i' = i /\ Terminated')
    /\ pc' = "done" => (i = Len(lines) /\ result' = Returned(output))
    /\ pc' = "error" => error' # NoError

\* C18: the driver terminates: every call ends, in the output returned or
\* in an error, and on the way every pass of the loop takes the line at the
\* index and advances the index by one or raises, so that each line is
\* processed once, in increasing order.
C18_Terminates == <>Terminated /\ [][C18_Step]_vars

C18_Witness ==
    /\ pc = "done"
    /\ Len(doc) = 3
    /\ i = Len(lines)
    /\ Len(result.text) >= 3

\* The loop has just processed line i, a Footnote command without a y, and
\* no start-family command before it.
FirstSectionFootnote ==
    /\ i >= 1
    /\ IsFootnoteWithoutY(strip(lines[i]))
    /\ Processed({"start"}) = {i}

\* C19, the first section: a Footnote command without a y that opens the
\* first section of the document finds the persisted values 0 and 0 and
\* starts at y = 36, which is then the y remembered.
C19_First ==
    FirstSectionFootnote
    => /\ output[Len(output)].op = "beginTextM"
       /\ output[Len(output)].y = 36
       /\ prev_y = 36
       /\ line_count = 0

\* C19, the steps: a blank line met with no section open changes neither
\* the remembered y nor the line counter, and emits nothing; a Footnote
\* command without a y starts at the remembered y + 15 * the line counter
\* + 36, whatever blank lines came since the section before was closed.
C19_Step ==
    /\ (~in_section /\ AtLine("blank"))
       => UNCHANGED <<prev_y, line_count, output, in_section>>
    /\ (AtLine("start") /\ IsFootnoteWithoutY(strip(lines[i + 1])))
       => /\ Len(output') = Len(output) + 1
          /\ output'[Len(output')].op = "beginTextM"
          /\ output'[Len(output')].y = prev_y + 15 * line_count + 36
          /\ prev_y' = prev_y + 15 * line_count + 36

\* C19: the values a Footnote command computes its y from start at 0 and 0
\* and are not touched by blank lines between sections.
C19_FootnotePersistence == []C19_First /\ [][C19_Step]_vars

C19_Witness ==
    /\ i = 5
    /\ lines = <<L_Footnote, L_text, L_end, L_blank, L_Footnote>>
    /\ output[1] = BeginStmt(FOOTNOTE_DEFAULT_SIZE, FOOTNOTE_DEFAULT_X, 36)
    /\ output[5] = BeginStmt(FOOTNOTE_DEFAULT_SIZE, FOOTNOTE_DEFAULT_X, 87)
    /\ prev_y = 87

\* The line begins with a start-family or vec3 command.
Recognised(line) == LineKind(line) \in {"start", "color"}

\* The line is a start-family or vec3 command and nothing more: a command
\* ends at its closing parenthesis, so no shorter beginning of the line is
\* one.
WholeMatch(line) ==
    /\ Recognised(line)
    /\ \A n \in 1..(Len(line) - 1) : ~Recognised(SubSeq(line, 1, n))

\* C20: a line is taken for a start-family or vec3 command only when the
\* whole trimmed line matches: a pass of the loop that emits a beginTextM
\* or color statement is for such a line, and in an open section a
\* well-formed command with further characters after it (Text() x,
\* vec3(1) x) is emitted as literal text, opens no section and sets no
\* color.
C20_WholeLineOnly ==
    [][(pc = "loop" /\ i < Len(lines))
       => LET line == strip(lines[i + 1])
          IN  /\ (/\ Len(output') > Len(output)
                  /\ output'[Len(output')].op \in {"beginTextM", "fgCol"})
                 => WholeMatch(line)
              /\ (in_section /\ Recognised(line) /\ ~WholeMatch(line))
                 => /\ output' = output \o <<PrintStringStmt(
                                                  convert_to_chars(line)),
                                              EMPTY_LINE_RESULT>>
                    /\ in_section'
                    /\ prev_y' = prev_y
      ]_vars

====
